---- MODULE Spec2Model ----
(***************************************************************************)
(* TravelEase server: the request handlers over the vehicles and bookings  *)
(* collections (src/unnamed/part_000, and the earlier src/server.js whose  *)
(* handlers are the same except POST /bookings).                           *)
(*                                                                         *)
(* Values.  A JSON value is a string; a JSON number is written as its JSON *)
(* text.  Absent is JavaScript's undefined (the key is not in the object), *)
(* Null is JSON null.  A route identifier (req.params.id) is a natural:    *)
(* 0 stands for a string that is no ObjectId ("abc"), n >= 1 for the 24    *)
(* hex digits of the n-th ObjectId.  A stored _id is <<"ObjectId", n>>     *)
(* (generated by the driver, or built by new ObjectId(id)) or              *)
(* <<"String", s>> (a JSON string the client put in the body).             *)
(***************************************************************************)
EXTENDS Integers, Sequences, FiniteSets, TLC

VARIABLES vehicles, bookings, nextOid, res, removed, answered, procs

vars == <<vehicles, bookings, nextOid, res, removed, answered, procs>>

\* ------------------------------------------------------------- bounds
MaxOid == 2
MaxDocs == 2
MaxClock == 1
NumProcs == 2

\* ------------------------------------------------------------- values
Absent == "<undefined>"
Null == "<null>"
NoId == -1
NaN == -1

\* mutant of Truthy: only undefined and null are falsy, the empty string is not
TruthyNotEmptyAware(v) == v # Absent /\ v # Null

\* JavaScript truthiness of a JSON string/null/undefined: !v is ~Truthy(v)
Truthy(v) == v # Absent /\ v # Null /\ v # ""

\* mutant of OrElse: a ?? b, which keeps an empty string
OrElseNullish(a, b) == IF a # Absent /\ a # Null THEN a ELSE b

\* a || b
OrElse(a, b) == IF Truthy(a) THEN a ELSE b

\* ObjectId.isValid(id) on a route parameter
IsValid(id) == id >= 1

\* new ObjectId(id)
ObjectId(id) == <<"ObjectId", id>>

\* BSON serialisation of a field value inside a $set document: the driver
\* (ignoreUndefined off) writes a key whose value is undefined as null
BsonValue(v) == IF v = Absent THEN Null ELSE v

AllowListed == {"vehicleName", "owner", "category", "pricePerDay", "location",
                "availability", "description", "coverImage"}

VehicleBodyFields == AllowListed \cup {"userEmail"}

VehicleDocFields == VehicleBodyFields \cup {"_id", "createdAt"}

Times == 0..MaxClock

RouteIds == 0..MaxOid

NoBody == [f \in {} |-> Absent]

NoOid == <<"none", 0>>

\* ------------------------------------------------------------- collection operations

\* positions of the documents of coll that match _id = id
Matching(coll, id) == {i \in 1..Len(coll) : coll[i]["_id"] = id}

\* mutant of FindOne: the filter is dropped, findOne({}) gives the first document
FindOneUnfiltered(coll, id) == IF coll = <<>> THEN <<>> ELSE <<coll[1]>>

\* collection.findOne({_id: id}): the first match in natural order, as a sequence of 0 or 1
FindOne(coll, id) ==
    IF Matching(coll, id) = {} THEN <<>>
    ELSE <<coll[CHOOSE i \in Matching(coll, id) : \A j \in Matching(coll, id) : i <= j]>>

\* collection.find(query) for query {field: value}, in natural order
FindBy(coll, field, value) == SelectSeq(coll, LAMBDA d : d[field] = value)

RECURSIVE InsertDesc(_, _)
\* d placed into s, which is ordered by createdAt descending; ties keep natural order
InsertDesc(s, d) ==
    IF s = <<>> THEN <<d>>
    ELSE IF Head(s)["createdAt"] >= d["createdAt"] THEN <<Head(s)>> \o InsertDesc(Tail(s), d)
    ELSE <<d>> \o s

\* mutant of SortDesc: no sort, the documents come in natural order
SortDescOmitted(s) == s

RECURSIVE SortDesc(_)
\* cursor.sort({createdAt: -1})
SortDesc(s) == IF s = <<>> THEN <<>> ELSE InsertDesc(SortDesc(SubSeq(s, 1, Len(s) - 1)), s[Len(s)])

\* mutant of DeleteOne: deleteMany({}) in place of deleteOne(filter)
DeleteOneEverything(coll, id) == IF Matching(coll, id) = {} THEN coll ELSE <<>>

\* collection.deleteOne({_id: id}): the collection without the first match
DeleteOne(coll, id) ==
    IF Matching(coll, id) = {} THEN coll
    ELSE LET k == CHOOSE i \in Matching(coll, id) : \A j \in Matching(coll, id) : i <= j
         IN  SubSeq(coll, 1, k - 1) \o SubSeq(coll, k + 1, Len(coll))

\* mutant of UpdateDoc: userEmail is among the fields the update sets
UpdateDocWithEmail(updateData) ==
    [f \in AllowListed \cup {"userEmail"} |-> BsonValue(updateData[f])]

\* the $set document of PUT /vehicles/:id as the server stores it
UpdateDoc(updateData) == [f \in AllowListed |-> BsonValue(updateData[f])]

\* mutant of UpdateOne: a merge, the fields the request omits keep their value
UpdateOneMerge(coll, id, set) ==
    IF Matching(coll, id) = {} THEN coll
    ELSE LET k == CHOOSE i \in Matching(coll, id) : \A j \in Matching(coll, id) : i <= j
         IN  [coll EXCEPT ![k] = [f \in DOMAIN coll[k] |->
                                    IF f \in DOMAIN set /\ set[f] # Null THEN set[f]
                                    ELSE coll[k][f]]]

\* mutant of UpdateOne: {upsert: true}, an update that matches nothing inserts
UpdateOneUpsert(coll, id, set) ==
    IF Matching(coll, id) = {}
    THEN Append(coll, [f \in AllowListed \cup {"userEmail", "_id", "createdAt"} |->
                          CASE f = "_id" -> id
                            [] f = "createdAt" -> 0
                            [] f = "userEmail" -> Absent
                            [] OTHER -> set[f]])
    ELSE LET k == CHOOSE i \in Matching(coll, id) : \A j \in Matching(coll, id) : i <= j
         IN  [coll EXCEPT ![k] = [f \in DOMAIN coll[k] |->
                                    IF f \in DOMAIN set THEN set[f] ELSE coll[k][f]]]

\* collection.updateOne({_id: id}, {$set: set}), no upsert
UpdateOne(coll, id, set) ==
    IF Matching(coll, id) = {} THEN coll
    ELSE LET k == CHOOSE i \in Matching(coll, id) : \A j \in Matching(coll, id) : i <= j
         IN  [coll EXCEPT ![k] = [f \in DOMAIN coll[k] |->
                                    IF f \in DOMAIN set THEN set[f] ELSE coll[k][f]]]

\* the _id insertOne stores: the document's own when it has one, else a new ObjectId
InsertedId(data, oid) == IF data["_id"] = NoId THEN ObjectId(oid) ELSE <<"String", data["_id"]>>

\* insertOne fails with a duplicate key error when the _id is already stored
DuplicateKey(coll, id) == Matching(coll, id) # {}

\* ------------------------------------------------------------- responses
Response(op, status, error) ==
    [op |-> op, status |-> status, error |-> error, id |-> NoId, email |-> Absent,
     body |-> NoBody, docs |-> <<>>, insertedId |-> NoOid, modifiedCount |-> 0,
     dbCalls |-> 0, before |-> <<>>]

\* ------------------------------------------------------------- request inputs
OmittedRest == [f \in VehicleBodyFields |-> Absent]

FullRest ==
    [f \in VehicleBodyFields |->
        CASE f = "owner" -> "Ann"
          [] f = "category" -> "SUV"
          [] f = "pricePerDay" -> "50"
          [] f = "location" -> "Dhaka"
          [] f = "availability" -> "Available"
          [] f = "description" -> "4 seats"
          [] f = "coverImage" -> "car.png"
          [] OTHER -> Absent]

PartialRest ==
    [f \in VehicleBodyFields |->
        CASE f = "owner" -> "Bob"
          [] f = "category" -> Null
          [] f = "pricePerDay" -> ""
          [] OTHER -> Absent]

VehicleNames == {Absent, "", "Car"}

Emails == {Absent, "", "a@x.com", "b@x.com"}

BodyIds == {NoId, 1}

VehicleBody(rest, name, email, id) ==
    [f \in VehicleBodyFields \cup {"_id"} |->
        CASE f = "_id" -> id
          [] f = "vehicleName" -> name
          [] f = "userEmail" -> email
          [] OTHER -> rest[f]]

VehicleBodies ==
    {VehicleBody(OmittedRest, n, "a@x.com", NoId) : n \in VehicleNames}
    \cup {VehicleBody(OmittedRest, "Car", e, NoId) : e \in Emails}
    \cup {VehicleBody(OmittedRest, "Car", "a@x.com", 1),
          VehicleBody(FullRest, "Car", "b@x.com", NoId),
          VehicleBody(PartialRest, Absent, "b@x.com", NoId)}

\* ------------------------------------------------------------- vehicle handlers

\* GET /vehicles
ListVehicles ==
    /\ res' = [Response("GET /vehicles", 200, "") EXCEPT
                 !.docs = SortDesc(vehicles), !.dbCalls = 1]
    /\ UNCHANGED <<vehicles, bookings, nextOid, removed, answered, procs>>

\* the document POST /vehicles inserts
VehicleDoc(vehicleData, id, now) ==
    [f \in VehicleDocFields |->
        CASE f = "_id" -> id
          [] f = "createdAt" -> now
          [] OTHER -> vehicleData[f]]

\* POST /vehicles
CreateVehicle(vehicleData) ==
    IF ~Truthy(vehicleData["vehicleName"]) \/ ~Truthy(vehicleData["userEmail"])
    THEN /\ res' = [Response("POST /vehicles", 400, "vehicleName and userEmail are required")
                      EXCEPT !.body = vehicleData]
         /\ UNCHANGED <<vehicles, bookings, nextOid, removed, answered, procs>>
    ELSE LET id == InsertedId(vehicleData, nextOid)
         IN  IF DuplicateKey(vehicles, id)
             THEN /\ res' = [Response("POST /vehicles", 500, "Failed to add vehicle")
                               EXCEPT !.body = vehicleData, !.dbCalls = 1]
                  /\ UNCHANGED <<vehicles, bookings, nextOid, removed, answered, procs>>
             ELSE /\ Len(vehicles) < MaxDocs
                  /\ vehicleData["_id"] = NoId => nextOid <= MaxOid
                  /\ \E now \in Times :
                        vehicles' = Append(vehicles, VehicleDoc(vehicleData, id, now))
                  /\ nextOid' = IF vehicleData["_id"] = NoId THEN nextOid + 1 ELSE nextOid
                  /\ res' = [Response("POST /vehicles", 200, "") EXCEPT
                               !.body = vehicleData, !.insertedId = id, !.dbCalls = 1]
                  /\ UNCHANGED <<bookings, removed, answered, procs>>

\* GET /vehicles/:id
GetVehicle(id) ==
    /\ res' = IF ~IsValid(id)
              THEN [Response("GET /vehicles/:id", 400, "Invalid vehicle id") EXCEPT !.id = id]
              ELSE LET vehicle == FindOne(vehicles, ObjectId(id))
                   IN  IF vehicle = <<>>
                       THEN [Response("GET /vehicles/:id", 404, "Vehicle not found")
                               EXCEPT !.id = id, !.dbCalls = 1]
                       ELSE [Response("GET /vehicles/:id", 200, "")
                               EXCEPT !.id = id, !.docs = vehicle, !.dbCalls = 1]
    /\ UNCHANGED <<vehicles, bookings, nextOid, removed, answered, procs>>

\* GET /my-vehicles?email=
MyVehicles(email) ==
    /\ res' = IF ~Truthy(email)
              THEN [Response("GET /my-vehicles", 400, "Email query parameter is required")
                      EXCEPT !.email = email]
              ELSE [Response("GET /my-vehicles", 200, "") EXCEPT
                      !.email = email, !.dbCalls = 1,
                      !.docs = SortDesc(FindBy(vehicles, "userEmail", email))]
    /\ UNCHANGED <<vehicles, bookings, nextOid, removed, answered, procs>>

\* PUT /vehicles/:id
UpdateVehicle(id, updateData) ==
    IF ~IsValid(id)
    THEN /\ res' = [Response("PUT /vehicles/:id", 400, "Invalid vehicle id")
                      EXCEPT !.id = id, !.body = updateData]
         /\ UNCHANGED <<vehicles, bookings, nextOid, removed, answered, procs>>
    ELSE LET filter == ObjectId(id)
             matched == FindOne(vehicles, filter)
             after == UpdateOne(vehicles, filter, UpdateDoc(updateData))
         IN  /\ vehicles' = after
             /\ res' = IF matched = <<>>
                       THEN [Response("PUT /vehicles/:id", 404, "Vehicle not found")
                               EXCEPT !.id = id, !.body = updateData, !.dbCalls = 1]
                       ELSE [Response("PUT /vehicles/:id", 200, "") EXCEPT
                               !.id = id, !.body = updateData, !.dbCalls = 1,
                               !.before = matched,
                               !.modifiedCount = IF after = vehicles THEN 0 ELSE 1]
             /\ UNCHANGED <<bookings, nextOid, removed, answered, procs>>

\* DELETE /vehicles/:id
DeleteVehicle(id) ==
    IF ~IsValid(id)
    THEN /\ res' = [Response("DELETE /vehicles/:id", 400, "Invalid vehicle id") EXCEPT !.id = id]
         /\ UNCHANGED <<vehicles, bookings, nextOid, removed, answered, procs>>
    ELSE LET filter == ObjectId(id)
             matched == FindOne(vehicles, filter)
         IN  /\ vehicles' = DeleteOne(vehicles, filter)
             /\ res' = IF matched = <<>>
                       THEN [Response("DELETE /vehicles/:id", 404, "Vehicle not found")
                               EXCEPT !.id = id, !.dbCalls = 1]
                       ELSE [Response("DELETE /vehicles/:id", 200, "")
                               EXCEPT !.id = id, !.dbCalls = 1, !.before = matched]
             /\ removed' = IF matched = <<>> THEN removed
                           ELSE [removed EXCEPT !.vehicles = @ \cup {filter}]
             /\ answered' = IF matched = <<>> THEN answered
                            ELSE [answered EXCEPT ![id] = @ + 1]
             /\ UNCHANGED <<bookings, nextOid, procs>>

\* ------------------------------------------------------------- booking inputs
BookingBodyFields == {"vehicleId", "userEmail", "startDate", "endDate", "status"}

BookingDocFields == BookingBodyFields \cup {"_id", "createdAt"}

BookingBody(vehicleId, email, startDate, endDate, status, id) ==
    [f \in BookingBodyFields \cup {"_id"} |->
        CASE f = "_id" -> id
          [] f = "vehicleId" -> vehicleId
          [] f = "userEmail" -> email
          [] f = "startDate" -> startDate
          [] f = "endDate" -> endDate
          [] OTHER -> status]

Statuses == {Absent, "", "confirmed"}

DateStrings == {"2024-01-01", "2024-01-05", "next week"}

BookingBodies ==
    {BookingBody("v1", "a@x.com", "2024-01-01", "2024-01-05", st, NoId) : st \in Statuses}
    \cup {BookingBody("v1", "b@x.com", "2024-01-01", e, Absent, NoId) : e \in DateStrings \cup {Absent, ""}}
    \cup {BookingBody("v1", "a@x.com", "next week", "2024-01-05", "confirmed", NoId),
          BookingBody(Absent, "a@x.com", "2024-01-01", "2024-01-05", Absent, NoId),
          BookingBody("v1", Absent, "2024-01-01", "2024-01-05", Absent, NoId),
          BookingBody("v1", "a@x.com", Absent, "2024-01-05", Absent, NoId),
          BookingBody("v1", "a@x.com", "2024-01-01", "2024-01-05", Absent, 1)}

\* new Date(s).getTime() for a JSON string, in days since the epoch; NaN for a
\* string that is no date (new Date does not throw, it gives an Invalid Date)
DateValue(s) ==
    CASE s = "2024-01-01" -> 19723
      [] s = "2024-01-05" -> 19727
      [] OTHER -> NaN

\* BSON serialisation of a Date: Long.fromNumber(getTime()), which is 0 for NaN
BsonDate(t) == IF t = NaN THEN 0 ELSE t

\* a stored date field: a BSON date, or the string as it came
StoredDate(t) == [type |-> "Date", time |-> BsonDate(t), text |-> ""]

StoredString(s) == [type |-> "String", time |-> 0, text |-> s]

\* ------------------------------------------------------------- booking handlers

\* the document POST /bookings inserts (part_000: dates normalised)
BookingDoc(bookingData, id, now) ==
    [f \in BookingDocFields |->
        CASE f = "_id" -> id
          [] f = "createdAt" -> now
          [] f = "startDate" -> StoredDate(DateValue(bookingData["startDate"]))
          [] f = "endDate" -> StoredDate(DateValue(bookingData["endDate"]))
          [] f = "status" -> OrElse(bookingData["status"], "pending")
          [] OTHER -> bookingData[f]]

\* the document POST /bookings inserts (server.js: dates stored as they came)
BookingDocServerJs(bookingData, id, now) ==
    [f \in BookingDocFields |->
        CASE f = "_id" -> id
          [] f = "createdAt" -> now
          [] f = "startDate" -> StoredString(bookingData["startDate"])
          [] f = "endDate" -> StoredString(bookingData["endDate"])
          [] f = "status" -> OrElse(bookingData["status"], "pending")
          [] OTHER -> bookingData[f]]

\* the part of POST /bookings the two files share: validation, then insertOne(doc)
InsertBooking(op, bookingData, id, doc) ==
    IF \/ ~Truthy(bookingData["vehicleId"]) \/ ~Truthy(bookingData["userEmail"])
       \/ ~Truthy(bookingData["startDate"]) \/ ~Truthy(bookingData["endDate"])
    THEN /\ res' = [Response(op, 400, "vehicleId, userEmail, startDate and endDate are required")
                      EXCEPT !.body = bookingData]
         /\ UNCHANGED <<vehicles, bookings, nextOid, removed, answered, procs>>
    ELSE IF DuplicateKey(bookings, id)
         THEN /\ res' = [Response(op, 500, "Failed to create booking")
                           EXCEPT !.body = bookingData, !.dbCalls = 1]
              /\ UNCHANGED <<vehicles, bookings, nextOid, removed, answered, procs>>
         ELSE /\ Len(bookings) < MaxDocs
              /\ bookingData["_id"] = NoId => nextOid <= MaxOid
              /\ bookings' = Append(bookings, doc)
              /\ nextOid' = IF bookingData["_id"] = NoId THEN nextOid + 1 ELSE nextOid
              /\ res' = [Response(op, 200, "") EXCEPT
                           !.body = bookingData, !.insertedId = id, !.dbCalls = 1]
              /\ UNCHANGED <<vehicles, removed, answered, procs>>

\* POST /bookings (part_000).  The catch around new Date(...) is never entered:
\* new Date of a string does not throw.
CreateBooking(bookingData) ==
    \E now \in Times :
        LET id == InsertedId(bookingData, nextOid)
        IN  InsertBooking("POST /bookings", bookingData, id, BookingDoc(bookingData, id, now))

\* POST /bookings (server.js)
CreateBookingServerJs(bookingData) ==
    \E now \in Times :
        LET id == InsertedId(bookingData, nextOid)
        IN  InsertBooking("POST /bookings", bookingData, id,
                          BookingDocServerJs(bookingData, id, now))

\* GET /my-bookings?email=
MyBookings(email) ==
    /\ res' = IF ~Truthy(email)
              THEN [Response("GET /my-bookings", 400, "Email query parameter is required")
                      EXCEPT !.email = email]
              ELSE [Response("GET /my-bookings", 200, "") EXCEPT
                      !.email = email, !.dbCalls = 1,
                      !.docs = SortDesc(FindBy(bookings, "userEmail", email))]
    /\ UNCHANGED <<vehicles, bookings, nextOid, removed, answered, procs>>

\* DELETE /bookings/:id
DeleteBooking(id) ==
    IF ~IsValid(id)
    THEN /\ res' = [Response("DELETE /bookings/:id", 400, "Invalid booking id") EXCEPT !.id = id]
         /\ UNCHANGED <<vehicles, bookings, nextOid, removed, answered, procs>>
    ELSE LET filter == ObjectId(id)
             matched == FindOne(bookings, filter)
         IN  /\ bookings' = DeleteOne(bookings, filter)
             /\ res' = IF matched = <<>>
                       THEN [Response("DELETE /bookings/:id", 404, "Booking not found")
                               EXCEPT !.id = id, !.dbCalls = 1]
                       ELSE [Response("DELETE /bookings/:id", 200, "")
                               EXCEPT !.id = id, !.dbCalls = 1, !.before = matched]
             /\ removed' = IF matched = <<>> THEN removed
                           ELSE [removed EXCEPT !.bookings = @ \cup {filter}]
             /\ UNCHANGED <<vehicles, nextOid, answered, procs>>

\* ------------------------------------------------------------- specifications
Init ==
    /\ vehicles = <<>>
    /\ bookings = <<>>
    /\ nextOid = 1
    /\ res = Response("GET /", 200, "")
    /\ removed = [vehicles |-> {}, bookings |-> {}]
    /\ answered = [n \in 1..MaxOid |-> 0]
    /\ procs = <<>>

VehicleNext ==
    \/ ListVehicles
    \/ \E vehicleData \in VehicleBodies : CreateVehicle(vehicleData)
    \/ \E id \in RouteIds : GetVehicle(id)
    \/ \E email \in Emails : MyVehicles(email)
    \/ \E id \in RouteIds, updateData \in VehicleBodies : UpdateVehicle(id, updateData)
    \/ \E id \in RouteIds : DeleteVehicle(id)

VehicleSpec == Init /\ [][VehicleNext]_vars

BookingNext ==
    \/ \E bookingData \in BookingBodies : CreateBooking(bookingData)
    \/ \E bookingData \in BookingBodies : CreateBookingServerJs(bookingData)
    \/ \E email \in Emails : MyBookings(email)
    \/ \E id \in RouteIds : DeleteBooking(id)

BookingSpec == Init /\ [][BookingNext]_vars

\* ------------------------------------------------------------- concurrent requests
\* Each request is one run of its handler: the code up to the await (Receive),
\* the single database call, which the store executes atomically (Execute), and
\* the code after the await (Respond).  Runs of different requests interleave.
Procs == 1..NumProcs

Idle == [pc |-> "idle", op |-> "", id |-> NoId, body |-> NoBody, count |-> 0,
         status |-> 0, afterRemoval |-> FALSE]

ConcOps == {"POST /vehicles", "PUT /vehicles/:id", "DELETE /vehicles/:id"}

ConcBodies == {VehicleBody(OmittedRest, "Car", "a@x.com", NoId),
               VehicleBody(FullRest, "Car", "b@x.com", NoId)}

\* the handler up to its await: a 400 is answered at once, else the call is issued
Receive(p, op, id, body) ==
    /\ procs[p].pc = "idle"
    /\ procs' = [procs EXCEPT ![p] =
          IF op = "POST /vehicles"
          THEN IF ~Truthy(body["vehicleName"]) \/ ~Truthy(body["userEmail"])
               THEN [Idle EXCEPT !.pc = "done", !.op = op, !.body = body, !.status = 400]
               ELSE [Idle EXCEPT !.pc = "awaiting", !.op = op, !.body = body]
          ELSE IF ~IsValid(id)
               THEN [Idle EXCEPT !.pc = "done", !.op = op, !.id = id, !.status = 400]
               ELSE [Idle EXCEPT !.pc = "awaiting", !.op = op, !.id = id,
                                  !.body = IF op = "PUT /vehicles/:id" THEN body ELSE NoBody]]
    /\ UNCHANGED <<vehicles, bookings, nextOid, res, removed, answered>>

\* the store executes the call of p: insertOne, updateOne or deleteOne
Execute(p) ==
    /\ procs[p].pc = "awaiting"
    /\ LET r == procs[p]
           filter == ObjectId(r.id)
           found == Cardinality(Matching(vehicles, filter)) > 0
       IN  CASE r.op = "POST /vehicles" ->
                  /\ Len(vehicles) < MaxDocs
                  /\ nextOid <= MaxOid
                  /\ \E now \in Times :
                        vehicles' = Append(vehicles,
                                           VehicleDoc(r.body, InsertedId(r.body, nextOid), now))
                  /\ nextOid' = nextOid + 1
                  /\ removed' = removed
                  /\ procs' = [procs EXCEPT ![p].pc = "resumed", ![p].count = 1,
                                            ![p].id = nextOid]
             [] r.op = "PUT /vehicles/:id" ->
                  /\ vehicles' = UpdateOne(vehicles, filter, UpdateDoc(r.body))
                  /\ UNCHANGED <<nextOid, removed>>
                  /\ procs' = [procs EXCEPT ![p].pc = "resumed",
                                            ![p].count = IF found THEN 1 ELSE 0,
                                            ![p].afterRemoval = filter \in removed.vehicles]
             [] r.op = "DELETE /vehicles/:id" ->
                  /\ vehicles' = DeleteOne(vehicles, filter)
                  /\ nextOid' = nextOid
                  /\ removed' = IF found THEN [removed EXCEPT !.vehicles = @ \cup {filter}]
                                ELSE removed
                  /\ procs' = [procs EXCEPT ![p].pc = "resumed",
                                            ![p].count = IF found THEN 1 ELSE 0,
                                            ![p].afterRemoval = filter \in removed.vehicles]
    /\ UNCHANGED <<bookings, res, answered>>

\* the handler after its await: matchedCount / deletedCount of 0 is a 404
Respond(p) ==
    /\ procs[p].pc = "resumed"
    /\ procs' = [procs EXCEPT ![p].pc = "done",
                              ![p].status = IF procs[p].count = 0 THEN 404 ELSE 200]
    /\ answered' = IF procs[p].op = "DELETE /vehicles/:id" /\ procs[p].count # 0
                   THEN [answered EXCEPT ![procs[p].id] = @ + 1]
                   ELSE answered
    /\ UNCHANGED <<vehicles, bookings, nextOid, res, removed>>

\* the response of p has been sent and p serves the next request
Finish(p) ==
    /\ procs[p].pc = "done"
    /\ procs' = [procs EXCEPT ![p] = Idle]
    /\ UNCHANGED <<vehicles, bookings, nextOid, res, removed, answered>>

ConcInit ==
    /\ vehicles = <<>>
    /\ bookings = <<>>
    /\ nextOid = 1
    /\ res = Response("GET /", 200, "")
    /\ removed = [vehicles |-> {}, bookings |-> {}]
    /\ answered = [n \in 1..MaxOid |-> 0]
    /\ procs = [p \in Procs |-> Idle]

ConcNext ==
    \/ \E p \in Procs, op \in ConcOps, id \in RouteIds, body \in ConcBodies :
          Receive(p, op, id, body)
    \/ \E p \in Procs : Execute(p)
    \/ \E p \in Procs : Respond(p)
    \/ \E p \in Procs : Finish(p)

ConcSpec == ConcInit /\ [][ConcNext]_vars

\* ------------------------------------------------------------- shared by the properties
PostVehicles == "POST /vehicles"

\* the stored vehicle the last request addressed (route id read as an ObjectId)
Addressed(coll, r) == FindOne(coll, ObjectId(r.id))

\* s is ordered by createdAt descending
OrderedDesc(s) == \A i, j \in 1..Len(s) : i < j => s[i]["createdAt"] >= s[j]["createdAt"]

\* s holds exactly the documents of coll that satisfy Keep, each once
ExactlyThose(s, coll, Keep(_)) ==
    /\ Len(s) = Cardinality({i \in 1..Len(coll) : Keep(coll[i])})
    /\ {s[i] : i \in 1..Len(s)} = {coll[i] : i \in {k \in 1..Len(coll) : Keep(coll[k])}}
    /\ \A i, j \in 1..Len(s) : i # j => s[i] # s[j]

\* what GET /vehicles/:id answers for the identifier a create returned
ReadBack(coll, insertedId) ==
    IF IsValid(insertedId[2]) THEN FindOne(coll, ObjectId(insertedId[2])) ELSE <<>>

MissingFields == "vehicleId, userEmail, startDate and endDate are required"

\* ------------------------------------------------------------- C1
\* C1: a POST /vehicles whose vehicleName or userEmail is missing or empty is
\* answered 400, makes no database call and leaves the vehicles collection as it was.
C1_RejectsMissingNameOrEmail ==
    [][(/\ res'.op = PostVehicles
        /\ \/ res'.body["vehicleName"] \in {Absent, ""}
           \/ res'.body["userEmail"] \in {Absent, ""})
       => (res'.status = 400 /\ res'.dbCalls = 0 /\ vehicles' = vehicles)]_vars

\* C1 witness: an empty vehicleName was refused while a vehicle was already stored
C1_Witness ==
    /\ res.op = PostVehicles /\ res.status = 400
    /\ res.body["vehicleName"] = "" /\ Truthy(res.body["userEmail"])
    /\ Len(vehicles) >= 1

\* ------------------------------------------------------------- C2
\* C2 (the claim as stated): every POST /vehicles with vehicleName and userEmail
\* present (non-empty) is answered 200 with an identifier no stored document had,
\* and GET /vehicles/:id with that identifier returns a document with createdAt
\* set and every other field equal to the request body's.
C2_CreateThenReadBack ==
    [][(/\ res'.op = PostVehicles
        /\ Truthy(res'.body["vehicleName"]) /\ Truthy(res'.body["userEmail"]))
       => (/\ res'.status = 200
           /\ Matching(vehicles, res'.insertedId) = {}
           /\ LET got == ReadBack(vehicles', res'.insertedId)
              IN  /\ got # <<>>
                  /\ got[1]["createdAt"] \in Times
                  /\ \A f \in VehicleBodyFields : got[1][f] = res'.body[f])]_vars

\* ------------------------------------------------------------- C3
\* C3 (the claim as stated): after a successful PUT /vehicles/:id every
\* allow-listed field equals the body's value, and a field the body omits is
\* unset (no longer a key of the stored document).
C3_OmittedFieldsUnset ==
    (res.op = "PUT /vehicles/:id" /\ res.status = 200)
    => /\ Addressed(vehicles, res) # <<>>
       /\ \A f \in AllowListed : Addressed(vehicles, res)[1][f] = res.body[f]

\* C3 (amended): after a successful PUT /vehicles/:id every allow-listed field the
\* body gives equals the body's value, and every allow-listed field the body omits
\* is stored as null whatever it held before (overwrite, not merge).
C3_OmittedFieldsNull ==
    (res.op = "PUT /vehicles/:id" /\ res.status = 200)
    => /\ Addressed(vehicles, res) # <<>>
       /\ \A f \in AllowListed :
            Addressed(vehicles, res)[1][f] = (IF res.body[f] = Absent THEN Null ELSE res.body[f])

\* C3 witness: an update that omits owner has overwritten a stored owner with null
C3_Witness ==
    /\ res.op = "PUT /vehicles/:id" /\ res.status = 200
    /\ res.body["owner"] = Absent /\ res.body["vehicleName"] = "Car"
    /\ res.before[1]["owner"] = "Ann"
    /\ Addressed(vehicles, res)[1]["owner"] = Null

\* ------------------------------------------------------------- C4
\* C4 (the claim as stated): a POST /bookings with all four required fields present
\* whose startDate or endDate is no date is answered 400 with a message other than
\* the missing-field one, and stores no booking.
C4_BadDateRejected ==
    [][(/\ res'.op = "POST /bookings"
        /\ \A f \in {"vehicleId", "userEmail", "startDate", "endDate"} : Truthy(res'.body[f])
        /\ \/ DateValue(res'.body["startDate"]) = NaN
           \/ DateValue(res'.body["endDate"]) = NaN)
       => (res'.status = 400 /\ res'.error # MissingFields /\ bookings' = bookings)]_vars

\* ------------------------------------------------------------- C6
\* C6: GET /vehicles/:id answers 400 without a database call for an identifier
\* that is no ObjectId, 404 for an ObjectId no stored vehicle has, and otherwise
\* 200 with the stored document of that ObjectId; it never changes the collection.
C6_ReadByIdOutcomes ==
    /\ [](res.op = "GET /vehicles/:id" =>
            IF ~IsValid(res.id)
            THEN res.status = 400 /\ res.dbCalls = 0 /\ res.docs = <<>>
            ELSE IF \A i \in 1..Len(vehicles) : vehicles[i]["_id"] # ObjectId(res.id)
                 THEN res.status = 404 /\ res.docs = <<>>
                 ELSE /\ res.status = 200
                      /\ Len(res.docs) = 1
                      /\ res.docs[1]["_id"] = ObjectId(res.id)
                      /\ \E i \in 1..Len(vehicles) : vehicles[i] = res.docs[1])
    /\ [][res'.op = "GET /vehicles/:id" => vehicles' = vehicles]_vars

\* C6 witness: one of two stored vehicles was read
C6_Witness ==
    /\ res.op = "GET /vehicles/:id" /\ res.status = 200
    /\ Len(vehicles) = 2
    /\ res.docs[1] = vehicles[2]

\* ------------------------------------------------------------- C7
\* C7: GET /vehicles returns every stored vehicle, GET /my-vehicles?email=e exactly
\* the stored vehicles whose userEmail is e, both ordered by createdAt descending.
C7_ListingsCompleteAndOrdered ==
    /\ (res.op = "GET /vehicles")
         => /\ res.status = 200
            /\ ExactlyThose(res.docs, vehicles, LAMBDA d : TRUE)
            /\ OrderedDesc(res.docs)
    /\ (res.op = "GET /my-vehicles" /\ res.status = 200)
         => /\ ExactlyThose(res.docs, vehicles, LAMBDA d : d["userEmail"] = res.email)
            /\ OrderedDesc(res.docs)

\* C7 witness: a listing by owner that put the later createdAt first, against
\* the order of insertion
C7_Witness ==
    /\ res.op = "GET /my-vehicles" /\ res.status = 200
    /\ Len(res.docs) = 2
    /\ res.docs[1]["createdAt"] > res.docs[2]["createdAt"]
    /\ \E i, j \in 1..Len(vehicles) :
          i < j /\ vehicles[i] = res.docs[2] /\ vehicles[j] = res.docs[1]

\* ------------------------------------------------------------- C8
\* C8 (the claim as stated): an update never changes _id or createdAt, and every
\* other field, userEmail included, takes the value the update request gives it.
C8_AllOtherFieldsReplaceable ==
    [][(res'.op = "PUT /vehicles/:id" /\ res'.status = 200)
       => LET old == Addressed(vehicles, res')[1]
              new == Addressed(vehicles', res')[1]
          IN  /\ new["_id"] = old["_id"] /\ new["createdAt"] = old["createdAt"]
              /\ \A f \in VehicleBodyFields :
                    res'.body[f] # Absent => new[f] = res'.body[f]]_vars

\* C8 (amended): an update never changes _id, createdAt or userEmail, changes no
\* other vehicle, and each of the eight allow-listed fields takes the value the
\* update request gives it.
C8_OnlyAllowListedReplaceable ==
    [][(res'.op = "PUT /vehicles/:id" /\ res'.status = 200)
       => LET old == Addressed(vehicles, res')[1]
              new == Addressed(vehicles', res')[1]
          IN  /\ new["_id"] = old["_id"] /\ new["createdAt"] = old["createdAt"]
              /\ new["userEmail"] = old["userEmail"]
              /\ Len(vehicles') = Len(vehicles)
              /\ \A i \in 1..Len(vehicles) :
                    vehicles[i]["_id"] # old["_id"] => vehicles'[i] = vehicles[i]
              /\ \A f \in AllowListed :
                    res'.body[f] # Absent => new[f] = res'.body[f]]_vars

\* C8 witness: an update whose body names another userEmail went through and the
\* stored userEmail is the old one
C8_Witness ==
    /\ res.op = "PUT /vehicles/:id" /\ res.status = 200
    /\ res.body["userEmail"] = "b@x.com"
    /\ Addressed(vehicles, res)[1]["userEmail"] = "a@x.com"
    /\ res.modifiedCount = 1

\* ------------------------------------------------------------- C5
\* C5: DELETE /bookings/:id with an ObjectId no stored booking has answers 404 and
\* leaves the bookings as they were; with the ObjectId of a stored booking it
\* answers 200 and removes that booking and no other; a removed booking is never
\* stored again, and no later GET /my-bookings lists it.
C5_DeleteBooking ==
    /\ [][(res'.op = "DELETE /bookings/:id" /\ IsValid(res'.id))
          => IF \A i \in 1..Len(bookings) : bookings[i]["_id"] # ObjectId(res'.id)
             THEN res'.status = 404 /\ bookings' = bookings /\ removed' = removed
             ELSE /\ res'.status = 200
                  /\ Len(bookings') = Len(bookings) - 1
                  /\ bookings' = SelectSeq(bookings, LAMBDA d : d["_id"] # ObjectId(res'.id))
                  /\ ObjectId(res'.id) \in removed'.bookings]_vars
    /\ [](\A i \in 1..Len(bookings) : bookings[i]["_id"] \notin removed.bookings)
    /\ [](res.op = "GET /my-bookings" =>
            \A i \in 1..Len(res.docs) : res.docs[i]["_id"] \notin removed.bookings)

\* C5 witness: after a booking was removed, a listing by user returned another one
C5_Witness ==
    /\ res.op = "GET /my-bookings" /\ res.status = 200
    /\ removed.bookings # {}
    /\ Len(res.docs) >= 1

\* ------------------------------------------------------------- C9
\* C9 (the claim as stated, its part on creation): a created booking is stored
\* with status "pending" when the body has no status and with the body's status
\* when it has one.
C9_StatusAsGiven ==
    (res.op = "POST /bookings" /\ res.status = 200)
    => /\ FindOne(bookings, res.insertedId) # <<>>
       /\ FindOne(bookings, res.insertedId)[1]["status"] =
             (IF res.body["status"] = Absent THEN "pending" ELSE res.body["status"])

\* C9 (amended): a created booking is stored with status "pending" when the body
\* has no status or an empty one, and with the body's status otherwise; no later
\* operation changes a stored booking's status.
C9_StatusDefault ==
    /\ []((res.op = "POST /bookings" /\ res.status = 200)
          => /\ FindOne(bookings, res.insertedId) # <<>>
             /\ FindOne(bookings, res.insertedId)[1]["status"] =
                   (IF res.body["status"] \in {Absent, ""} THEN "pending"
                    ELSE res.body["status"]))
    /\ [][\A i \in 1..Len(bookings), j \in 1..Len(bookings') :
             bookings[i]["_id"] = bookings'[j]["_id"]
             => bookings[i]["status"] = bookings'[j]["status"]]_vars

\* C9 witness: a booking created with an empty status is stored as pending
\* beside one stored with the status its request gave
C9_Witness ==
    /\ res.op = "POST /bookings" /\ res.status = 200
    /\ res.body["status"] = ""
    /\ Len(bookings) = 2
    /\ bookings[1]["status"] = "confirmed"
    /\ bookings[2]["status"] = "pending" /\ bookings[2]["_id"] = res.insertedId

\* ------------------------------------------------------------- C10
\* C10: with each database call atomic and requests interleaved, the DELETE
\* requests for one ObjectId get exactly one 200 once its document is removed and
\* 404 otherwise; a removed document is never stored again, and an update whose
\* call runs after the removal matches nothing and is answered 404.
C10_ConcurrentDeleteUpdate ==
    /\ \A n \in 1..MaxOid :
          answered[n]
          + Cardinality({p \in Procs : /\ procs[p].op = "DELETE /vehicles/:id"
                                        /\ procs[p].id = n
                                        /\ procs[p].pc = "resumed"
                                        /\ procs[p].count # 0})
          = (IF ObjectId(n) \in removed.vehicles THEN 1 ELSE 0)
    /\ \A p \in Procs :
          (procs[p].op = "DELETE /vehicles/:id" /\ procs[p].pc = "done" /\ IsValid(procs[p].id))
          => /\ procs[p].status \in {200, 404}
             /\ procs[p].status = 200 <=> procs[p].count = 1
    /\ \A id \in removed.vehicles : Matching(vehicles, id) = {}
    /\ \A p \in Procs :
          (/\ procs[p].op = "PUT /vehicles/:id"
           /\ procs[p].pc \in {"resumed", "done"}
           /\ procs[p].afterRemoval)
          => /\ procs[p].count = 0
             /\ procs[p].pc = "done" => procs[p].status = 404

\* C10 witness: two DELETE requests for the same stored vehicle were in flight
\* together; the store removed it for one and found nothing for the other
C10_Witness ==
    \E p, q \in Procs :
        /\ procs[p].op = "DELETE /vehicles/:id" /\ procs[q].op = "DELETE /vehicles/:id"
        /\ procs[p].id = procs[q].id
        /\ procs[p].pc = "resumed" /\ procs[p].count = 1
        /\ procs[q].pc = "resumed" /\ procs[q].count = 0 /\ procs[q].afterRemoval

====
